---- MODULE Spec2Model ----
(***************************************************************************)
(* The typed workflow-graph engine of pydantic_ai_examples/deep_research:  *)
(* Handle (the fluent branch builder), GraphBuilder (edge, edges, build),  *)
(* Graph (builder, run, resume) and the outline workflow's routers and     *)
(* transforms.                                                             *)
(***************************************************************************)
EXTENDS Integers, Sequences, FiniteSets, TLC

VARIABLES
  builder,   \* the GraphBuilder object: NoBuilder, or its three fields
  graph,     \* the Graph returned by the last successful build(), or NoGraph
  call,      \* name of the last API call made
  raised,    \* exception raised by the last API call, "none" if it returned
  calls,     \* the run()/resume() calls made on the graph, in order
  returned,  \* value returned by the last run()/resume(), None if it raised
  executed,  \* nodes whose executable unit the last run()/resume() invoked
  fired,     \* branches (handles) the last run()/resume() dispatched to
  oracle,    \* what each node's executable unit outputs (the collaborator)
  handles,   \* heap of Handle objects made through HandleMaker / transform
  made,      \* the node(fn) calls made, in order: fn, exception, node returned
  invoked    \* the calls of fn made by CallNode.run on the nodes of made

vars == <<builder, graph, call, raised, calls, returned, executed, fired, oracle, handles,
          made, invoked>>

\* ------------------------------------------------------------------ bounds

\* edge() plus edges() calls made on one builder
MaxCalls == 2
\* Handle objects on the heap
MaxHandles == 3
\* run()/resume() calls made on one graph
MaxRunCalls == 2
\* node(fn) calls made
MaxNodes == 2
\* CallNode.run calls made on the nodes that node(fn) returned
MaxNodeRuns == 2

\* ------------------------------------------------------------------ values

None == [type |-> "NoneType"]

NoBuilder == [type |-> "NoBuilder"]

NoGraph == [type |-> "NoGraph"]

\* classes of plan_outline_graph.py that derive from pydantic's BaseModel
BaseModelSubclasses == {"Clarify", "Refuse", "Proceed", "ReviseOutline", "ApproveOutline"}

ClarifyV == [type |-> "Clarify", message |-> "which topic?"]

RefuseV == [type |-> "Refuse", message |-> "no research asked"]

ProceedV == [type |-> "Proceed"]

OutlineV == [type |-> "Outline", text |-> "outline-1"]

ReviseV == [type |-> "ReviseOutline", details |-> "add a section"]

ApproveV == [type |-> "ApproveOutline", message |-> "starting research"]

\* the values a node's executable unit may output
Outputs == {ClarifyV, RefuseV, ProceedV, OutlineV, ReviseV, ApproveV}

\* the chat histories given to run()/resume() as input
Chats == {[type |-> "MessageHistory", chat |-> "chat-1"], [type |-> "MessageHistory", chat |-> "chat-2"]}

\* the caller's GraphState objects
States == {[type |-> "State", chat |-> [type |-> "MessageHistory", chat |-> "chat-0"], outline |-> None]}

\* isinstance(v, type_): the class itself or a subclass of it
isinstance(v, type_) ==
  \/ v.type = type_
  \/ type_ = "BaseModel" /\ v.type \in BaseModelSubclasses

\* ------------------------------------------------------------------- nodes

\* a Node: its id and its executable unit
CallNode(id, fn) == [id |-> id, call |-> fn]

handle_user_message == CallNode("handle_user_message", "Prompt: Decide how to proceed from user message")

generate_outline == CallNode("generate_outline", "Prompt: Generate the outline")

review_outline == CallNode("review_outline", "Prompt: Review the outline")

\* node(fn) for another function that is also named generate_outline
other_generate_outline == CallNode("generate_outline", "fn: drafts.generate_outline")

Nodes == {handle_user_message, generate_outline, review_outline, other_generate_outline}

NodeIds == {n.id : n \in Nodes}

\* --------------------------------------------------------------- transforms

transform_proceed == [fn |-> "transform_proceed"]

transform_clarify == [fn |-> "transform_clarify"]

transform_outline == [fn |-> "transform_outline"]

transform_revise_outline == [fn |-> "transform_revise_outline"]

transform_approve_outline == [fn |-> "transform_approve_outline"]

Interruption(value, next_node) == [type |-> "Interruption", value |-> value, next_node |-> next_node]

YieldToHuman(message) == [type |-> "YieldToHuman", message |-> message]

TransformError == [type |-> "AttributeError"]

HasField(v, f) == f \in DOMAIN v

\* one transform applied to the bundle ctx = [state, inputs, output]; reading an
\* attribute the value lacks raises AttributeError
ApplyTransform(t, ctx) ==
  CASE t = transform_proceed ->
         [type |-> "GenerateOutlineInputs", chat |-> ctx.inputs, feedback |-> None]
    [] t = transform_clarify ->
         IF HasField(ctx.output, "message")
         THEN Interruption(YieldToHuman(ctx.output.message), handle_user_message)
         ELSE TransformError
    [] t = transform_outline ->
         [type |-> "ReviewOutlineInputs", chat |-> ctx.state.chat, outline |-> ctx.output]
    [] t = transform_revise_outline ->
         IF HasField(ctx.inputs, "outline") /\ HasField(ctx.output, "details")
         THEN [type |-> "GenerateOutlineInputs", chat |-> ctx.state.chat,
               feedback |-> [type |-> "ExistingOutlineFeedback",
                             outline |-> ctx.inputs.outline, feedback |-> ctx.output.details]]
         ELSE TransformError
    [] t = transform_approve_outline ->
         IF HasField(ctx.inputs, "outline") /\ HasField(ctx.output, "message")
         THEN [type |-> "OutlineStageOutput", outline |-> ctx.inputs.outline,
               message |-> ctx.output.message]
         ELSE TransformError

\* ------------------------------------------------------------------ Handle

\* Handle.__init__: the dataclass constructor; _end and _route_to are not
\* constructor parameters and start at their defaults
Handle(source_type, is_instance, transforms) ==
  [_source_type |-> source_type, _is_instance |-> is_instance,
   _transforms |-> transforms, _end |-> FALSE, _route_to |-> None]

\* a predicate Callable[[Any], bool], held as the values it accepts
Predicate(S) == [accepts |-> S]

\* HandleMaker.__call__
HandleMaker(type_, is_instance) ==
  Handle(type_,
         IF is_instance = None
         THEN Predicate({v \in Outputs : isinstance(v, type_)})
         ELSE is_instance,
         <<>>)

\* Handle.end: the handle after the call (it returns _source_type)
Handle_end(self) == [self EXCEPT !._end = TRUE]

\* Handle.route_to: the handle after the call (it returns _source_type)
Handle_route_to(self, n) == [self EXCEPT !._route_to = n]

\* a transform() that copies the receiver, its terminal action included
Handle_transform_copy(self, t) == [self EXCEPT !._transforms = Append(@, t)]

\* Handle.transform: the new Handle it returns; self is left as it is
Handle_transform(self, t) ==
  Handle(self._source_type, self._is_instance, Append(self._transforms, t))

\* ----------------------------------------------------------------- routers

\* a Router is a callable taking the HandleMaker h; it is held as the calls its
\* body makes, branch by branch in the order the body declares them
Branch(type_, is_instance, chain) == [type_ |-> type_, is_instance |-> is_instance, chain |-> chain]

Router(name, body) == [type |-> "Router", name |-> name, body |-> body]

c_transform(t) == [m |-> "transform", arg |-> t]

c_end == [m |-> "end", arg |-> None]

c_route_to(n) == [m |-> "route_to", arg |-> n]

\* the router given to g.edges(handle_user_message, ...)
route_user_message ==
  Router("route_user_message",
    << Branch("Refuse", None, <<c_end>>),
       Branch("Proceed", None, <<c_transform(transform_proceed), c_route_to(generate_outline)>>),
       Branch("Clarify", None, <<c_transform(transform_clarify), c_end>>) >>)

\* the router given to g.edges(generate_outline, ...)
route_outline ==
  Router("route_outline",
    << Branch("Outline", None, <<c_transform(transform_outline), c_route_to(review_outline)>>) >>)

\* the router given to g.edges(review_outline, ...)
route_review ==
  Router("route_review",
    << Branch("ReviseOutline", None, <<c_transform(transform_revise_outline), c_route_to(generate_outline)>>),
       Branch("ApproveOutline", None, <<c_transform(transform_approve_outline), c_end>>) >>)

\* two overlapping branches: every Clarify is a BaseModel
route_general_first ==
  Router("route_general_first",
    << Branch("BaseModel", None, <<c_end>>),
       Branch("Clarify", None, <<c_transform(transform_clarify), c_end>>) >>)

\* the same two branches declared the other way round
route_specific_first ==
  Router("route_specific_first",
    << Branch("Clarify", None, <<c_transform(transform_clarify), c_end>>),
       Branch("BaseModel", None, <<c_end>>) >>)

\* lambda h: Routing[()] : no branch at all
route_nothing == Router("route_nothing", <<>>)

\* a branch left as the fresh Handle that transform() returned
route_unfinished ==
  Router("route_unfinished",
    << Branch("Refuse", None, <<c_end>>),
       Branch("Proceed", None, <<c_transform(transform_proceed)>>) >>)

\* a body that keeps one handle and calls both terminal actions on it
route_twice ==
  Router("route_twice",
    << Branch("Refuse", None, <<c_end, c_route_to(generate_outline)>>) >>)

\* the Handle a chain of calls leaves: transform() moves on to the new Handle it
\* returns, end() and route_to() change the handle they are called on
RECURSIVE EvalChain(_, _)
EvalChain(h, chain) ==
  IF chain = <<>> THEN h
  ELSE LET c == Head(chain)
           h1 == CASE c.m = "transform" -> Handle_transform(h, c.arg)
                   [] c.m = "end" -> Handle_end(h)
                   [] c.m = "route_to" -> Handle_route_to(h, c.arg)
       IN EvalChain(h1, Tail(chain))

\* the branch list a router declares when it is called with the HandleMaker
Branches(routing) ==
  [i \in 1..Len(routing.body) |->
     EvalChain(HandleMaker(routing.body[i].type_, routing.body[i].is_instance),
               routing.body[i].chain)]

\* ------------------------------------------------------------ GraphBuilder

\* arguments drawn for GraphBuilder(_start_at=...) and Graph.builder(start_at=...)
StartChoices == {None, handle_user_message, route_user_message}

\* arguments drawn for edge() and edges()
EdgeNodes == {handle_user_message, generate_outline, other_generate_outline}

EdgeTransforms == {None, transform_outline}

EdgeRouters == {route_user_message, route_nothing, route_unfinished, route_twice}

\* GraphBuilder.__init__ (the dataclass constructor): _start_at is its only
\* parameter, both edge lists start empty
GraphBuilder(start_at) ==
  [_start_at |-> start_at, _simple_edges |-> <<>>, _routed_edges |-> <<>>]

\* GraphBuilder.edge
GraphBuilder_edge(self, source, transform, destination) ==
  [self EXCEPT !._simple_edges = Append(@, <<source, transform, destination>>)]

\* GraphBuilder.edges
GraphBuilder_edges(self, source, routing) ==
  [self EXCEPT !._routed_edges = Append(@, <<source, routing>>)]

build_raises_never(self) == "none"

\* GraphBuilder.build: the exception it raises, "none" when it returns
build_raises(self) ==
  IF self._start_at = None THEN "AssertionError" ELSE "none"

\* a build() that collects the simple edges last call first
build_graph_reversed(self) ==
  [nodes |-> <<>>,
   start_at |-> self._start_at,
   edges |-> [i \in 1..Len(self._simple_edges) |->
                LET e == self._simple_edges[Len(self._simple_edges) + 1 - i]
                IN <<e[1].id, e[2], e[3].id>>],
   routed_edges |-> [i \in 1..Len(self._routed_edges) |->
                <<self._routed_edges[i][1].id, self._routed_edges[i][2]>>]]

\* GraphBuilder.build: the Graph it returns; nodes is the empty dict
build_graph(self) ==
  [nodes |-> <<>>,
   start_at |-> self._start_at,
   edges |-> [i \in 1..Len(self._simple_edges) |->
                <<self._simple_edges[i][1].id, self._simple_edges[i][2],
                  self._simple_edges[i][3].id>>],
   routed_edges |-> [i \in 1..Len(self._routed_edges) |->
                <<self._routed_edges[i][1].id, self._routed_edges[i][2]>>]]

NoRun == <<calls, returned, executed, fired, oracle>>

NoNode == <<made, invoked>>

\* Graph.builder(...): the static factory
Graph_builder ==
  /\ \E start_at \in StartChoices : TRUE
  /\ call' = "Graph.builder"
  /\ raised' = "NotImplementedError"
  /\ UNCHANGED <<builder, graph, handles>>
  /\ UNCHANGED NoRun
  /\ UNCHANGED NoNode

\* GraphBuilder(_start_at=...)
GraphBuilder_init ==
  /\ builder = NoBuilder
  /\ \E start_at \in StartChoices : builder' = GraphBuilder(start_at)
  /\ call' = "GraphBuilder"
  /\ raised' = "none"
  /\ UNCHANGED <<graph, handles>>
  /\ UNCHANGED NoRun
  /\ UNCHANGED NoNode

CallsMade == Len(builder._simple_edges) + Len(builder._routed_edges)

edge ==
  /\ builder # NoBuilder
  /\ CallsMade < MaxCalls
  /\ \E source \in EdgeNodes, transform \in EdgeTransforms, destination \in EdgeNodes :
       builder' = GraphBuilder_edge(builder, source, transform, destination)
  /\ call' = "edge"
  /\ raised' = "none"
  /\ UNCHANGED <<graph, handles>>
  /\ UNCHANGED NoRun
  /\ UNCHANGED NoNode

\* edges() on a builder whose build() handed its own _routed_edges list to the
\* Graph instead of a new list: the append shows in the Graph as well
edges_shared ==
  /\ builder # NoBuilder
  /\ CallsMade < MaxCalls
  /\ \E source \in EdgeNodes, routing \in EdgeRouters :
       /\ builder' = GraphBuilder_edges(builder, source, routing)
       /\ graph' = IF graph = NoGraph THEN graph
                   ELSE [graph EXCEPT !.routed_edges = Append(@, <<source.id, routing>>)]
  /\ call' = "edges"
  /\ raised' = "none"
  /\ UNCHANGED handles
  /\ UNCHANGED NoRun
  /\ UNCHANGED NoNode

edges ==
  /\ builder # NoBuilder
  /\ CallsMade < MaxCalls
  /\ \E source \in EdgeNodes, routing \in EdgeRouters :
       builder' = GraphBuilder_edges(builder, source, routing)
  /\ call' = "edges"
  /\ raised' = "none"
  /\ UNCHANGED <<graph, handles>>
  /\ UNCHANGED NoRun
  /\ UNCHANGED NoNode

build ==
  /\ builder # NoBuilder
  /\ call' = "build"
  /\ raised' = build_raises(builder)
  /\ graph' = IF build_raises(builder) = "none" THEN build_graph(builder) ELSE graph
  /\ UNCHANGED <<builder, handles>>
  /\ UNCHANGED NoRun
  /\ UNCHANGED NoNode

InitCommon ==
  /\ graph = NoGraph
  /\ call = "none"
  /\ raised = "none"
  /\ calls = <<>>
  /\ returned = None
  /\ executed = <<>>
  /\ fired = <<>>
  /\ handles = <<>>
  /\ made = <<>>
  /\ invoked = <<>>

Init ==
  /\ InitCommon
  /\ builder = NoBuilder
  /\ oracle = [id \in NodeIds |-> RefuseV]

Next == Graph_builder \/ GraphBuilder_init \/ edge \/ edges \/ build

Spec == Init /\ [][Next]_vars

\* ------------------------------------------------- claims on GraphBuilder

\* the Node objects a builder refers to: its start node, the ends of its edges,
\* the sources of its routed edges and the route_to targets of their branches
RouteTargets(routing) ==
  {Branches(routing)[i]._route_to : i \in 1..Len(routing.body)} \ {None}

BuilderNodes(b) ==
  (IF b._start_at \in Nodes THEN {b._start_at} ELSE {})
  \cup {b._simple_edges[i][1] : i \in 1..Len(b._simple_edges)}
  \cup {b._simple_edges[i][3] : i \in 1..Len(b._simple_edges)}
  \cup {b._routed_edges[i][1] : i \in 1..Len(b._routed_edges)}
  \cup UNION {RouteTargets(b._routed_edges[i][2]) : i \in 1..Len(b._routed_edges)}

\* the NodeIds a Graph's edges and routed edges name
GraphEdgeIds(g) ==
  {g.edges[i][1] : i \in 1..Len(g.edges)}
  \cup {g.edges[i][3] : i \in 1..Len(g.edges)}
  \cup {g.routed_edges[i][1] : i \in 1..Len(g.routed_edges)}
  \cup UNION {{n.id : n \in RouteTargets(g.routed_edges[i][2])} : i \in 1..Len(g.routed_edges)}

\* a branch with exactly one terminal action
OneTerminal(h) == (h._end /\ h._route_to = None) \/ (~h._end /\ h._route_to # None)

\* a routing with a non-empty branch list, each branch with one terminal action
CompleteRouting(routing) ==
  /\ Len(routing.body) > 0
  /\ \A i \in 1..Len(routing.body) : OneTerminal(Branches(routing)[i])

\* C1: a builder with neither a start node nor a start routing rule never
\* yields a Graph, whatever edge()/edges() calls were made on it, and each
\* build() on it fails with the missing-start assertion.
C1_MissingStart ==
  (builder # NoBuilder /\ builder._start_at = None) =>
    /\ graph = NoGraph
    /\ call = "build" => raised = "AssertionError"

\* C1 witness: build() was called on a start-less builder that holds a direct
\* edge and a routed edge, and it failed.
C1_Witness ==
  /\ builder # NoBuilder
  /\ builder._start_at = None
  /\ Len(builder._simple_edges) > 0
  /\ Len(builder._routed_edges) > 0
  /\ call = "build"
  /\ raised = "AssertionError"
  /\ graph = NoGraph

\* C2: build() fails with UnknownNode when an edge or routed edge names an
\* unregistered NodeId, so every NodeId in the edges and routed edges of a
\* Graph that build() returned is a key of Graph.nodes.
C2_UnknownNode ==
  /\ (call = "build" /\ builder._start_at # None
        /\ ~(GraphEdgeIds(build_graph(builder)) \subseteq DOMAIN build_graph(builder).nodes))
       => raised = "UnknownNode"
  /\ graph # NoGraph => GraphEdgeIds(graph) \subseteq DOMAIN graph.nodes

\* C9: build() fails with IncompleteBranch when a routed edge has an empty
\* branch list or a Handle without terminal action, so every routed edge of a
\* Graph that build() returned has a non-empty branch list whose branches each
\* have exactly one terminal action.
C9_IncompleteBranch ==
  /\ (call = "build" /\ builder._start_at # None
        /\ \E i \in 1..Len(builder._routed_edges) :
              ~CompleteRouting(builder._routed_edges[i][2]))
       => raised = "IncompleteBranch"
  /\ graph # NoGraph =>
       \A i \in 1..Len(graph.routed_edges) : CompleteRouting(graph.routed_edges[i][2])

\* C10: NodeIds are unique within one graph: build() fails with DuplicateNodeId
\* when two distinct nodes of the builder have the same id, so no build() that
\* returns a Graph was given two distinct nodes under one NodeId.
C10_DuplicateNodeId ==
  (call = "build" /\ builder._start_at # None
     /\ \E m, n \in BuilderNodes(builder) : m # n /\ m.id = n.id)
    => raised = "DuplicateNodeId"

\* ------------------------------------------------------- the Handle objects

\* arguments drawn for h(type_, is_instance), route_to(node) and transform(call)
HandleTypes == {"Refuse", "BaseModel"}

HandlePredicates == {None, Predicate({ClarifyV, ProceedV})}

HandleTargets == {generate_outline}

HandleTransforms == {transform_proceed, transform_clarify}

\* h(type_, is_instance): a new Handle on the heap
h_call ==
  /\ Len(handles) < MaxHandles
  /\ \E type_ \in HandleTypes, is_instance \in HandlePredicates :
       handles' = Append(handles, HandleMaker(type_, is_instance))
  /\ UNCHANGED <<builder, graph, call, raised>>
  /\ UNCHANGED NoRun
  /\ UNCHANGED NoNode

\* handle.end()
end ==
  /\ \E i \in 1..Len(handles) :
       handles' = [handles EXCEPT ![i] = Handle_end(handles[i])]
  /\ UNCHANGED <<builder, graph, call, raised>>
  /\ UNCHANGED NoRun
  /\ UNCHANGED NoNode

\* handle.route_to(node)
route_to ==
  /\ \E i \in 1..Len(handles), n \in HandleTargets :
       handles' = [handles EXCEPT ![i] = Handle_route_to(handles[i], n)]
  /\ UNCHANGED <<builder, graph, call, raised>>
  /\ UNCHANGED NoRun
  /\ UNCHANGED NoNode

\* handle.transform(call): a new Handle on the heap
transform ==
  /\ Len(handles) < MaxHandles
  /\ \E i \in 1..Len(handles), t \in HandleTransforms :
       handles' = Append(handles, Handle_transform(handles[i], t))
  /\ UNCHANGED <<builder, graph, call, raised>>
  /\ UNCHANGED NoRun
  /\ UNCHANGED NoNode

NextHandle == h_call \/ end \/ route_to \/ transform

SpecHandle == Init /\ [][NextHandle]_vars

\* C8: a Handle's terminal action is set at most once, a second end() or
\* route_to() on it being rejected: no Handle has both its end flag and a
\* route_to node set.
C8_TerminalOnce ==
  \A i \in 1..Len(handles) : ~(handles[i]._end /\ handles[i]._route_to # None)

\* ------------------------------------------------------ Graph.run / resume

\* what a call of run()/resume() leaves: the exception it raised ("none" when it
\* returned), the value it returned, the nodes it executed and the branches it
\* dispatched to
Outcome(exc, value, nodes_run, branches) ==
  [raised |-> exc, returned |-> value, executed |-> nodes_run, fired |-> branches]

\* Graph.run
Graph_run(self, state, inputs) == Outcome("NotImplementedError", None, <<>>, <<>>)

\* Graph.resume
Graph_resume(self, state, n, node_inputs) == Outcome("NotImplementedError", None, <<>>, <<>>)

\* CallNode.run: awaits the executable unit; its output is the collaborator's
CallNode_run(self, state, inputs) == oracle[self.id]

\* arguments drawn for resume(state, node, node_inputs)
ResumeNodes == {handle_user_message, generate_outline}

run ==
  /\ graph # NoGraph
  /\ Len(calls) < MaxRunCalls
  /\ \E state \in States, inputs \in Chats :
       LET out == Graph_run(graph, state, inputs) IN
       /\ calls' = Append(calls, [op |-> "run", state |-> state, node |-> None, inputs |-> inputs])
       /\ raised' = out.raised
       /\ returned' = out.returned
       /\ executed' = out.executed
       /\ fired' = out.fired
  /\ call' = "run"
  /\ UNCHANGED <<builder, graph, oracle, handles>>
  /\ UNCHANGED NoNode

resume ==
  /\ graph # NoGraph
  /\ Len(calls) < MaxRunCalls
  /\ \E state \in States, n \in ResumeNodes, node_inputs \in Chats :
       LET out == Graph_resume(graph, state, n, node_inputs) IN
       /\ calls' = Append(calls, [op |-> "resume", state |-> state, node |-> n, inputs |-> node_inputs])
       /\ raised' = out.raised
       /\ returned' = out.returned
       /\ executed' = out.executed
       /\ fired' = out.fired
  /\ call' = "resume"
  /\ UNCHANGED <<builder, graph, oracle, handles>>
  /\ UNCHANGED NoNode

\* the wirings of the graphs that are run: the outline workflow's three edges()
\* calls, and single edges() calls on the first node
RunWirings ==
  { << <<handle_user_message, route_user_message>>,
       <<generate_outline, route_outline>>,
       <<review_outline, route_review>> >>,
    << <<handle_user_message, route_general_first>> >>,
    << <<handle_user_message, route_specific_first>> >>,
    << <<handle_user_message, route_outline>> >>,
    << <<handle_user_message, route_review>> >> }

RunStarts == {handle_user_message, route_user_message}

\* the builder after GraphBuilder(start_at) and one edges() call per entry
RECURSIVE Wired(_, _)
Wired(b, wiring) ==
  IF wiring = <<>> THEN b
  ELSE Wired(GraphBuilder_edges(b, Head(wiring)[1], Head(wiring)[2]), Tail(wiring))

InitRun ==
  /\ InitCommon
  /\ \E start_at \in RunStarts, wiring \in RunWirings :
       builder = Wired(GraphBuilder(start_at), wiring)
  /\ oracle \in [NodeIds -> Outputs]

NextRun == build \/ run \/ resume

SpecRun == InitRun /\ [][NextRun]_vars

\* ------------------------------------------------- claims on run / resume

\* the last run()/resume() call made
LastCall == calls[Len(calls)]

\* the graph starts at a fixed node that is the source of a routed edge
StartsAtRoutedNode ==
  /\ graph # NoGraph
  /\ graph.start_at \in Nodes
  /\ \E i \in 1..Len(graph.routed_edges) : graph.routed_edges[i][1] = graph.start_at.id

\* the branch list of the first routed edge whose source is the node id
BranchesOf(id) ==
  LET i == CHOOSE i \in 1..Len(graph.routed_edges) :
             /\ graph.routed_edges[i][1] = id
             /\ \A j \in 1..(i - 1) : graph.routed_edges[j][1] # id
  IN Branches(graph.routed_edges[i][2])

\* index of the first-declared branch whose predicate holds of v, 0 if none
FirstMatch(bs, v) ==
  IF \E i \in 1..Len(bs) : v \in bs[i]._is_instance.accepts
  THEN CHOOSE i \in 1..Len(bs) :
         /\ v \in bs[i]._is_instance.accepts
         /\ \A j \in 1..(i - 1) : v \notin bs[j]._is_instance.accepts
  ELSE 0

\* the transforms of a branch applied in order, each to the bundle whose output
\* is the value so far
RECURSIVE ApplyTransforms(_, _, _, _)
ApplyTransforms(ts, state, inputs, output) ==
  IF ts = <<>> THEN output
  ELSE ApplyTransforms(Tail(ts), state, inputs,
         ApplyTransform(Head(ts), [state |-> state, inputs |-> inputs, output |-> output]))

\* the first step of a run(state, inputs) from a fixed start node: the node's
\* output, the branch it matches and that branch's transformed value
FirstOutput(c) == CallNode_run(graph.start_at, c.state, c.inputs)

FirstBranch(c) == FirstMatch(BranchesOf(graph.start_at.id), FirstOutput(c))

FirstValue(c) ==
  ApplyTransforms(BranchesOf(graph.start_at.id)[FirstBranch(c)]._transforms,
                  c.state, c.inputs, FirstOutput(c))

\* a run() call was the last call made, on a graph starting at a routed node
RanFromStartNode == call = "run" /\ StartsAtRoutedNode

\* C3: dispatch fires exactly the first-declared branch whose predicate holds:
\* when the start node's output matches two branches of its routed edge, the
\* first dispatch of the run is to the earlier-declared one, never the later.
C3_FirstMatchWins ==
  (RanFromStartNode /\ FirstBranch(LastCall) > 0
     /\ \E j \in (FirstBranch(LastCall) + 1)..Len(BranchesOf(graph.start_at.id)) :
          FirstOutput(LastCall) \in BranchesOf(graph.start_at.id)[j]._is_instance.accepts) =>
    /\ Len(fired) >= 1
    /\ fired[1] = <<graph.start_at.id, FirstBranch(LastCall)>>

\* C4: when the start node's output satisfies no branch predicate the run
\* fails with NoMatchingRoute, having executed that node only and returning
\* no value.
C4_NoMatchingRoute ==
  (RanFromStartNode /\ FirstBranch(LastCall) = 0) =>
    /\ raised = "NoMatchingRoute"
    /\ executed = <<graph.start_at.id>>
    /\ returned = None

\* C5: when the start node's output is dispatched to an end() branch, run()
\* returns exactly the branch's transforms applied to the bundle (the raw
\* output without transform) and no node executes after that dispatch.
C5_EndReturnsValue ==
  (RanFromStartNode /\ FirstBranch(LastCall) > 0
     /\ BranchesOf(graph.start_at.id)[FirstBranch(LastCall)]._end
     /\ FirstValue(LastCall).type \notin {"Interruption", "AttributeError"}) =>
    /\ raised = "none"
    /\ returned = FirstValue(LastCall)
    /\ executed = <<graph.start_at.id>>

\* C6: when the fired branch's transform produces an Interruption, run() halts
\* and hands that Interruption to the caller unchanged; a first step classified
\* as Clarify in the outline workflow yields the clarifying message with
\* handle_user_message as the node to resume at.
C6_InterruptionReturned ==
  (RanFromStartNode /\ FirstBranch(LastCall) > 0
     /\ FirstValue(LastCall).type = "Interruption") =>
    /\ raised = "none"
    /\ returned = FirstValue(LastCall)
    /\ executed = <<graph.start_at.id>>
    /\ (graph.routed_edges[1][2] = route_user_message /\ FirstOutput(LastCall) = ClarifyV) =>
         returned = Interruption(YieldToHuman(ClarifyV.message), handle_user_message)

\* C7: after a run that suspends with Interruption(value, nodeX), the call
\* resume(state, nodeX, someInput) enters the loop directly at nodeX: nodeX is
\* the first node it executes, and no routing is evaluated before it.
C7_ResumeEntersAtNode ==
  (/\ call = "resume"
   /\ Len(calls) >= 2
   /\ calls[Len(calls) - 1].op = "run"
   /\ StartsAtRoutedNode
   /\ FirstBranch(calls[Len(calls) - 1]) > 0
   /\ FirstValue(calls[Len(calls) - 1]).type = "Interruption"
   /\ LastCall.node = FirstValue(calls[Len(calls) - 1]).next_node) =>
    /\ raised # "NotImplementedError"
    /\ Len(executed) >= 1
    /\ executed[1] = LastCall.node.id

\* ------------------------------------------- claims on the built Graph

\* C11 (as amended): an edge() or edges() call made on the builder after
\* build() leaves the Graph that build() returned unchanged in all its fields;
\* the call itself is accepted and appends to the builder's own list.
C11_GraphUnchanged ==
  [][(graph # NoGraph /\ builder' # builder) =>
       /\ graph' = graph
       /\ raised' = "none"
       /\ CallsMade' = CallsMade + 1]_vars

\* C11 witness: a Graph was returned and an edge was added to the builder
\* afterwards, the Graph still holding the shorter list.
C11_Witness ==
  /\ graph # NoGraph
  /\ call \in {"edge", "edges"}
  /\ Len(builder._simple_edges) + Len(builder._routed_edges)
       > Len(graph.edges) + Len(graph.routed_edges)

\* C11 (as claimed): an edge() or edges() call made after build() leaves the
\* returned Graph unchanged and is itself an error, not an accepted operation.
C11_PostBuildMutationRejected ==
  [][(graph # NoGraph /\ call' \in {"edge", "edges"}) =>
       /\ graph' = graph
       /\ raised' # "none"
       /\ builder' = builder]_vars

\* ------------------------------------------ claims on the run's outcome

\* how the last run()/resume() ended, as its caller sees it
RunStatus ==
  IF raised # "none" THEN "Failed"
  ELSE IF returned.type = "Interruption" THEN "Suspended"
  ELSE "Completed"

\* the first dispatch of run call c ends the run: no branch matches, the
\* transform fails or yields an Interruption, or the branch is an end() branch
FirstStepEnds(c) ==
  \/ FirstBranch(c) = 0
  \/ /\ FirstBranch(c) > 0
     /\ \/ FirstValue(c).type \in {"Interruption", "AttributeError"}
        \/ BranchesOf(graph.start_at.id)[FirstBranch(c)]._end

\* the state in which a run ending at its first dispatch ends
FirstStepStatus(c) ==
  IF FirstBranch(c) = 0 THEN "Failed"
  ELSE IF FirstValue(c).type = "AttributeError" THEN "Failed"
  ELSE IF FirstValue(c).type = "Interruption" THEN "Suspended"
  ELSE "Completed"

\* C12: a run reaches exactly one of Completed, Suspended and Failed, the one
\* its dispatch prescribes: a suspension by Interruption is reported as
\* Suspended and never as Failed, a terminal value as Completed, and no node
\* executes after the step that ended the run.
C12_OneOutcome ==
  (RanFromStartNode /\ FirstStepEnds(LastCall)) =>
    /\ RunStatus = FirstStepStatus(LastCall)
    /\ Len(executed) <= 1

\* C14: when a transform fails, the failure reaches the caller of run() as a
\* failed result: the node that ran is not invoked again, no other node runs,
\* and no value or Interruption is returned in its place.
C14_FailurePropagates ==
  (RanFromStartNode /\ FirstBranch(LastCall) > 0
     /\ FirstValue(LastCall).type = "AttributeError") =>
    /\ raised \in {"TransformFailed", "AttributeError"}
    /\ returned = None
    /\ executed = <<graph.start_at.id>>

\* the outline workflow's graph: start at handle_user_message, its three
\* routed edges in the order of the edges() calls
IsOutlineGraph ==
  /\ graph # NoGraph
  /\ graph.start_at = handle_user_message
  /\ graph.edges = <<>>
  /\ graph.routed_edges =
       << <<"handle_user_message", route_user_message>>,
          <<"generate_outline", route_outline>>,
          <<"review_outline", route_review>> >>

\* the value the outline workflow ends with when the three nodes classify
\* Proceed, produce an outline and approve it: each transform applied to the
\* bundle of its step
OutlineStageValue(c) ==
  LET generate_in == ApplyTransform(transform_proceed,
                       [state |-> c.state, inputs |-> c.inputs, output |-> oracle["handle_user_message"]])
      review_in == ApplyTransform(transform_outline,
                       [state |-> c.state, inputs |-> generate_in, output |-> oracle["generate_outline"]])
  IN ApplyTransform(transform_approve_outline,
                       [state |-> c.state, inputs |-> review_in, output |-> oracle["review_outline"]])

\* C15: in the outline workflow a run classified Proceed, then producing an
\* outline, then classified ApproveOutline executes handle_user_message,
\* generate_outline and review_outline once each in that order and returns
\* OutlineStageOutput(the outline given to review, the approval message).
C15_OutlineEndToEnd ==
  (/\ call = "run"
   /\ IsOutlineGraph
   /\ oracle["handle_user_message"] = ProceedV
   /\ oracle["generate_outline"] = OutlineV
   /\ oracle["review_outline"] = ApproveV) =>
    /\ raised = "none"
    /\ executed = <<"handle_user_message", "generate_outline", "review_outline">>
    /\ returned = OutlineStageValue(LastCall)
    /\ returned = [type |-> "OutlineStageOutput", outline |-> OutlineV, message |-> ApproveV.message]

\* C17: run(state, input) resolves its first step from the start rule: a fixed
\* start node is the first node executed; a start routing rule is dispatched
\* on the initial input before any node executes, failing with
\* NoMatchingRoute when no branch matches it.
C17_StartResolution ==
  (call = "run" /\ graph # NoGraph) =>
    /\ graph.start_at \in Nodes =>
         /\ Len(executed) >= 1
         /\ executed[1] = graph.start_at.id
    /\ (graph.start_at \notin Nodes
          /\ FirstMatch(Branches(graph.start_at), LastCall.inputs) = 0) =>
         /\ raised = "NoMatchingRoute"
         /\ executed = <<>>

\* ------------------------------------------- claims on the edge lists

\* seq2 is seq1 with one element of S appended
AppendsOne(seq1, seq2, S) ==
  /\ Len(seq2) = Len(seq1) + 1
  /\ SubSeq(seq2, 1, Len(seq1)) = seq1
  /\ seq2[Len(seq2)] \in S

\* C18: every edge() call appends exactly one (source, transform, destination)
\* entry to the builder's simple edges and every edges() call exactly one
\* (source, routing) entry to its routed edges, leaving the earlier entries
\* and the other list as they were; a successful build() returns a Graph
\* whose edges and routed_edges have one entry per builder entry, in the same
\* order, with the nodes replaced by their ids, and leaves the builder's
\* lists unchanged.
C18_EdgesInCallOrder ==
  [][/\ call' = "edge" =>
          /\ AppendsOne(builder._simple_edges, builder'._simple_edges,
                        EdgeNodes \X EdgeTransforms \X EdgeNodes)
          /\ builder'._routed_edges = builder._routed_edges
     /\ call' = "edges" =>
          /\ AppendsOne(builder._routed_edges, builder'._routed_edges,
                        EdgeNodes \X EdgeRouters)
          /\ builder'._simple_edges = builder._simple_edges
     /\ (call' = "build" /\ raised' = "none") =>
          /\ builder' = builder
          /\ Len(graph'.edges) = Len(builder._simple_edges)
          /\ Len(graph'.routed_edges) = Len(builder._routed_edges)
          /\ \A i \in 1..Len(builder._simple_edges) :
               graph'.edges[i] = <<builder._simple_edges[i][1].id,
                                   builder._simple_edges[i][2],
                                   builder._simple_edges[i][3].id>>
          /\ \A i \in 1..Len(builder._routed_edges) :
               graph'.routed_edges[i] = <<builder._routed_edges[i][1].id,
                                          builder._routed_edges[i][2]>>]_vars

\* C18 witness: a Graph built after two edge() calls with different
\* arguments, so that their order shows in the Graph
C18_Witness ==
  /\ call = "build"
  /\ raised = "none"
  /\ graph # NoGraph
  /\ Len(graph.edges) = 2
  /\ graph.edges[1] # graph.edges[2]
  /\ Len(builder._simple_edges) = 2

\* ------------------------------------------- claims on Handle.transform

\* the Handle a step has put on the heap
NewHandle == handles'[Len(handles')]

\* C19: a transform(call) step leaves every Handle already on the heap as it
\* was, the receiver's transforms, end flag and route_to node included, and
\* returns a new Handle with the receiver's source type and predicate, the
\* receiver's transforms followed by call, and no terminal action.
C19_TransformReturnsNew ==
  [][(Len(handles') > Len(handles) /\ NewHandle._transforms # <<>>) =>
       /\ Len(handles') = Len(handles) + 1
       /\ SubSeq(handles', 1, Len(handles)) = handles
       /\ \E i \in 1..Len(handles), t \in HandleTransforms :
            /\ NewHandle._source_type = handles[i]._source_type
            /\ NewHandle._is_instance = handles[i]._is_instance
            /\ NewHandle._transforms = Append(handles[i]._transforms, t)
       /\ NewHandle._end = FALSE
       /\ NewHandle._route_to = None]_vars

\* C19 witness: two transforms chained on a Handle, the second on a receiver
\* that already has a terminal action; the chain is recorded in its order and
\* the new Handle has no terminal action
C19_Witness ==
  \E i, j \in 1..Len(handles) :
    /\ i < j
    /\ handles[i]._transforms = <<transform_clarify>>
    /\ handles[i]._end
    /\ handles[i]._route_to # None
    /\ handles[j]._transforms = <<transform_clarify, transform_proceed>>
    /\ ~handles[j]._end
    /\ handles[j]._route_to = None

\* ------------------------------------------------------------------ node()

\* a function given to node(): its __name__ and the parameter names of its
\* signature, in order
Function(name, parameters) == [name |-> name, parameters |-> parameters]

Signatures ==
  { <<>>, <<"state">>, <<"inputs">>, <<"state", "inputs">>,
    <<"inputs", "state">>, <<"x">>, <<"state", "x">> }

NodeFunctions == {Function(name, ps) : name \in {"f", "g"}, ps \in Signatures}

\* name in signature.parameters
HasParameter(fn, name) == \E i \in 1..Len(fn.parameters) : fn.parameters[i] = name

\* node(fn): the exception it raises, "none" when it returns
node_raises(fn) ==
  IF HasParameter(fn, "state") /\ HasParameter(fn, "inputs")
  THEN IF Len(fn.parameters) = 2 THEN "none" ELSE "AssertionError"
  ELSE IF HasParameter(fn, "state")
  THEN IF Len(fn.parameters) = 1 THEN "none" ELSE "AssertionError"
  ELSE IF HasParameter(fn, "state")
  THEN IF Len(fn.parameters) = 1 THEN "none" ELSE "AssertionError"
  ELSE IF Len(fn.parameters) = 0 THEN "none" ELSE "AssertionError"

\* node(fn): the CallNode it returns; call is fn itself or one of the three
\* lambdas wrapped around it
node_returns(fn) ==
  IF HasParameter(fn, "state") /\ HasParameter(fn, "inputs")
  THEN CallNode(fn.name, [body |-> "fn", fn |-> fn])
  ELSE IF HasParameter(fn, "state")
  THEN CallNode(fn.name, [body |-> "lambda state, inputs: fn(state)", fn |-> fn])
  ELSE IF HasParameter(fn, "state")
  THEN CallNode(fn.name, [body |-> "lambda state, inputs: fn(inputs)", fn |-> fn])
  ELSE CallNode(fn.name, [body |-> "lambda state, inputs: fn()", fn |-> fn])

\* self.call(state, inputs): the positional arguments fn is called with
CallNode_call(self, state, inputs) ==
  IF self.call.body = "fn" THEN <<state, inputs>>
  ELSE IF self.call.body = "lambda state, inputs: fn(state)" THEN <<state>>
  ELSE IF self.call.body = "lambda state, inputs: fn(inputs)" THEN <<inputs>>
  ELSE <<>>

\* node(fn)
node ==
  /\ Len(made) < MaxNodes
  /\ \E fn \in NodeFunctions :
       /\ made' = Append(made, [fn |-> fn, raised |-> node_raises(fn),
                                node |-> IF node_raises(fn) = "none"
                                         THEN node_returns(fn) ELSE None])
       /\ raised' = node_raises(fn)
  /\ call' = "node"
  /\ UNCHANGED <<builder, graph, handles, invoked>>
  /\ UNCHANGED NoRun

\* CallNode.run(state, inputs) on a node that node(fn) returned
CallNode_run_made ==
  /\ Len(invoked) < MaxNodeRuns
  /\ \E i \in 1..Len(made), state \in States, inputs \in Chats :
       /\ made[i].raised = "none"
       /\ invoked' = Append(invoked,
            [fn |-> made[i].fn, state |-> state, inputs |-> inputs,
             args |-> CallNode_call(made[i].node, state, inputs)])
  /\ call' = "CallNode.run"
  /\ raised' = "none"
  /\ UNCHANGED <<builder, graph, handles, made>>
  /\ UNCHANGED NoRun

NextNode == node \/ CallNode_run_made

SpecNode == Init /\ [][NextNode]_vars

\* the four parameter shapes node() is meant to accept
SupportedSignatures == { <<>>, <<"state">>, <<"inputs">>, <<"state", "inputs">> }

\* the arguments a function declares, drawn from a run(state, inputs) call
DeclaredArguments(fn, state, inputs) ==
  [i \in 1..Len(fn.parameters) |->
     IF fn.parameters[i] = "state" THEN state ELSE inputs]

\* C20: node(fn) accepts fn(), fn(state), fn(inputs) and fn(state, inputs):
\* it returns a node whose id is fn.__name__, and the node's run(state,
\* inputs) calls fn with exactly the arguments fn declares.
C20_FourShapes ==
  /\ \A i \in 1..Len(made) :
       made[i].fn.parameters \in SupportedSignatures =>
         /\ made[i].raised = "none"
         /\ made[i].node.id = made[i].fn.name
  /\ \A k \in 1..Len(invoked) :
       invoked[k].fn.parameters \in SupportedSignatures =>
         invoked[k].args =
           DeclaredArguments(invoked[k].fn, invoked[k].state, invoked[k].inputs)

====
